---------------------------- MODULE Spec2Model ----------------------------
(***************************************************************************)
(* Model of the budget tracker's link-extraction subsystem:                *)
(*   - the route POST /api/extract-link            (src/server.js)         *)
(*   - fetchUrl, the three extraction strategies and extractProductInfo    *)
(*     (the link-extractor part of src/database.js)                        *)
(*                                                                         *)
(* JavaScript strings are sequences of one-character strings.  JavaScript  *)
(* values are records of one shape (JsVal) so that any two of them can be  *)
(* compared.  A decimal number is the pair m, e standing for m * 10^(-e),  *)
(* normalised so that equal numbers are equal pairs.                       *)
(***************************************************************************)
EXTENDS Integers, Sequences, FiniteSets, TLC

(***************************************************************************)
(* Bounds of the model.                                                    *)
(***************************************************************************)
\* longest og:price content enumerated exhaustively
MaxLen == 3
\* most ld+json blocks in an enumerated document
MaxBlocks == 2
\* most rows the table purchases is given in a behaviour of the store
MaxPurchases == 3
\* most operations on the list the user starts in a behaviour of the list
MaxOps == 2
\* most purchases the user submits in a behaviour of the form
MaxSubmits == 1
\* most timers of the extraction status pending at a time
MaxTimers == 1

(***************************************************************************)
(* JavaScript values.                                                      *)
(***************************************************************************)
Undef == [t |-> "undefined", s |-> <<>>, m |-> 0, e |-> 0]
JsNull == [t |-> "null", s |-> <<>>, m |-> 0, e |-> 0]
NaN == [t |-> "NaN", s |-> <<>>, m |-> 0, e |-> 0]
Str(s) == [t |-> "string", s |-> s, m |-> 0, e |-> 0]
Bool(b) == [t |-> "boolean", s |-> <<>>, m |-> IF b THEN 1 ELSE 0, e |-> 0]

RECURSIVE Normalise(_, _)
\* the pair for m * 10^(-e) without trailing zeros in the fraction
Normalise(m, e) ==
  IF e > 0 /\ m % 10 = 0 THEN Normalise(m \div 10, e - 1) ELSE <<m, e>>

Number(m, e) ==
  LET n == Normalise(m, e)
  IN  [t |-> "number", s |-> <<>>, m |-> n[1], e |-> n[2]]

\* ToBoolean: undefined, null, NaN, 0, "" and false are falsy
Truthy(v) ==
  CASE v.t = "string" -> v.s # <<>>
    [] v.t = "number" -> v.m # 0
    [] v.t = "boolean" -> v.m # 0
    [] OTHER -> FALSE

\* isNaN(v) for the values a price can take
IsNaN(v) == v.t = "NaN" \/ v.t = "undefined"

\* obj[k] of an object modelled as a function from its own keys
Get(obj, k) == IF k \in DOMAIN obj THEN obj[k] ELSE Undef

Has(obj, k) == k \in DOMAIN obj

\* the object without key k (delete obj[k])
Delete(obj, k) == [x \in (DOMAIN obj) \ {k} |-> obj[x]]

EmptyObject == <<>>

(***************************************************************************)
(* Characters and the string functions the extractor uses.                 *)
(***************************************************************************)
Digits == {"0", "1", "2", "3", "4", "5", "6", "7", "8", "9"}

DigitVal(c) ==
  CASE c = "0" -> 0 [] c = "1" -> 1 [] c = "2" -> 2 [] c = "3" -> 3
    [] c = "4" -> 4 [] c = "5" -> 5 [] c = "6" -> 6 [] c = "7" -> 7
    [] c = "8" -> 8 [] c = "9" -> 9

IsDigit(c) == c \in Digits

\* \s of a regular expression, and the white space trim() strips
IsSpace(c) == c = " "

RECURSIVE DropSpaces(_)
DropSpaces(s) ==
  IF s # <<>> /\ IsSpace(Head(s)) THEN DropSpaces(Tail(s)) ELSE s

RECURSIVE DropSpacesRight(_)
DropSpacesRight(s) ==
  IF s # <<>> /\ IsSpace(s[Len(s)])
    THEN DropSpacesRight(SubSeq(s, 1, Len(s) - 1))
    ELSE s

\* String.prototype.trim
Trim(s) == DropSpacesRight(DropSpaces(s))

\* String.prototype.startsWith
StartsWith(s, p) == Len(s) >= Len(p) /\ SubSeq(s, 1, Len(p)) = p

RECURSIVE TakeDigits(_)
\* the longest prefix of s made of digits
TakeDigits(s) ==
  IF s # <<>> /\ IsDigit(Head(s)) THEN <<Head(s)>> \o TakeDigits(Tail(s)) ELSE <<>>

RECURSIVE DigitsValue(_)
\* the natural number written by a sequence of digits (0 for none)
DigitsValue(ds) ==
  IF ds = <<>> THEN 0
  ELSE 10 * DigitsValue(SubSeq(ds, 1, Len(ds) - 1)) + DigitVal(ds[Len(ds)])

RECURSIVE Pow10(_)
Pow10(n) == IF n = 0 THEN 1 ELSE 10 * Pow10(n - 1)

\* parseFloat of a string: leading white space is skipped, then an optional
\* sign, then the longest prefix  digits [. digits]  or  . digits ; NaN when
\* there is none.  Whatever follows the prefix is ignored.  (Exponents and
\* the literal Infinity need letters that no enumerated input contains.)
ParseFloatStr(s) ==
  LET t == DropSpaces(s)
      signed == t # <<>> /\ Head(t) \in {"-", "+"}
      neg == t # <<>> /\ Head(t) = "-"
      u == IF signed THEN Tail(t) ELSE t
      ip == TakeDigits(u)
      r == SubSeq(u, Len(ip) + 1, Len(u))
      fp == IF r # <<>> /\ Head(r) = "." THEN TakeDigits(Tail(r)) ELSE <<>>
      mag == DigitsValue(ip) * Pow10(Len(fp)) + DigitsValue(fp)
  IN  IF ip = <<>> /\ fp = <<>> THEN NaN
      ELSE Number(IF neg THEN 0 - mag ELSE mag, Len(fp))

\* parseFloat of any value: the argument is converted to a string first
ParseFloat(v) ==
  CASE v.t = "string" -> ParseFloatStr(v.s)
    [] v.t = "number" -> v
    [] OTHER -> NaN

\* the character class [\d,.\s]
InPriceClass(c) == IsDigit(c) \/ c \in {",", "."} \/ IsSpace(c)

RECURSIVE TakePriceRun(_)
TakePriceRun(s) ==
  IF s # <<>> /\ InPriceClass(Head(s))
    THEN <<Head(s)>> \o TakePriceRun(Tail(s))
    ELSE <<>>

RECURSIVE MatchPriceRun(_)
\* price.match(/[\d,.\s]+/): the first maximal run of class characters,
\* found = FALSE for a null match
MatchPriceRun(s) ==
  IF s = <<>> THEN [found |-> FALSE, str |-> <<>>]
  ELSE IF InPriceClass(Head(s)) THEN [found |-> TRUE, str |-> TakePriceRun(s)]
  ELSE MatchPriceRun(Tail(s))

\* str.replace(/[,\s]/g, '.')
ReplaceSeparators(s) ==
  [i \in 1..Len(s) |-> IF s[i] = "," \/ IsSpace(s[i]) THEN "." ELSE s[i]]

(***************************************************************************)
(* The parsed document ($ = cheerio.load(html)), reduced to what the       *)
(* selectors of the extractor read from it:                                *)
(*   ogTitle, ogPrice, ogDescription, ogImage  content of the og: metas,   *)
(*                                   Undef when the meta is missing        *)
(*   ldBlocks         the ld+json script blocks in document order          *)
(*   metaTitle, metaDescription     content of the name= metas, or Undef   *)
(*   titleText        $('title').text(), empty without a title element     *)
(*   dataPrice        data-price of the first element that has one, Undef   *)
(*                    without such an element                              *)
(* An ld+json block is its JSON.parse outcome: wellFormed = FALSE when     *)
(* JSON.parse throws, otherwise the members the extractor reads.  offers   *)
(* and image are a single value or a list:  shape is "absent", "object"    *)
(* (one item) or "array" (any number of items).                            *)
(***************************************************************************)
Absent == [shape |-> "absent", items |-> <<>>]
Single(x) == [shape |-> "object", items |-> <<x>>]
List(xs) == [shape |-> "array", items |-> xs]

Offer(p) == [price |-> p]

Malformed ==
  [wellFormed |-> FALSE, type |-> "", name |-> Undef, description |-> Undef,
   image |-> Absent, offers |-> Absent]

Block(type, name, description, image, offers) ==
  [wellFormed |-> TRUE, type |-> type, name |-> name,
   description |-> description, image |-> image, offers |-> offers]

Document(ot, op, od, oi, ld, mt, tt, md) ==
  [ogTitle |-> ot, ogPrice |-> op, ogDescription |-> od, ogImage |-> oi,
   ldBlocks |-> ld, metaTitle |-> mt, titleText |-> tt, metaDescription |-> md,
   dataPrice |-> Undef]

\* the same page with an element that carries data-price
WithDataPrice(doc, p) == [doc EXCEPT !.dataPrice = p]

(***************************************************************************)
(* What a strategy returns: null, or an object with the fields it found.   *)
(***************************************************************************)
Null == [null |-> TRUE, data |-> EmptyObject]
Some(d) == [null |-> FALSE, data |-> d]

\* Object.keys(data).length > 0 ? data : null
NonEmptyOrNull(data) == IF DOMAIN data # {} THEN Some(data) ELSE Null

\* if (v) data[k] = f(v)
SetIf(cond, k, v) == IF cond THEN k :> v ELSE EmptyObject

(***************************************************************************)
(* extractOpenGraph                                                        *)
(***************************************************************************)
\* parseFloat(priceMatch[0].replace(/[,\s]/g, '.'))
NormalisePrice(run) == ParseFloatStr(ReplaceSeparators(run))

OgPriceField(price) ==
  IF Truthy(price)
    THEN LET priceMatch == MatchPriceRun(price.s)
         IN  SetIf(priceMatch.found, "price", NormalisePrice(priceMatch.str))
    ELSE EmptyObject

ExtractOpenGraph(doc) ==
  LET data == SetIf(Truthy(doc.ogTitle), "title", Str(Trim(doc.ogTitle.s)))
              @@ OgPriceField(doc.ogPrice)
              @@ SetIf(Truthy(doc.ogDescription), "description",
                       Str(Trim(doc.ogDescription.s)))
              @@ SetIf(Truthy(doc.ogImage), "image", Str(Trim(doc.ogImage.s)))
  IN  NonEmptyOrNull(data)

(***************************************************************************)
(* extractJsonLd and extractFromSchema                                     *)
(***************************************************************************)
\* Array.isArray(x) ? x[0] : x ; undefined for an empty array
FirstOf(x, missing) == IF x.items = <<>> THEN missing ELSE x.items[1]

\* obj.offers is truthy and its first entry is undefined: reading
\* offer.price throws a TypeError
SchemaThrows(obj) == obj.offers.shape = "array" /\ obj.offers.items = <<>>

SchemaPriceField(obj) ==
  IF obj.offers.shape # "absent"
    THEN LET offer == FirstOf(obj.offers, Offer(Undef))
         IN  SetIf(Truthy(offer.price), "price", ParseFloat(offer.price))
    ELSE EmptyObject

\* extractFromSchema when it does not throw
ExtractFromSchema(obj) ==
  LET data == SetIf(Truthy(obj.name), "title", obj.name)
              @@ SetIf(Truthy(obj.description), "description", obj.description)
              @@ SetIf(obj.image.shape # "absent" /\
                         (obj.image.shape = "array" \/ Truthy(obj.image.items[1])),
                       "image", FirstOf(obj.image, Undef))
              @@ SchemaPriceField(obj)
  IN  NonEmptyOrNull(data)

\* json.offers && json.offers.price : an array has no price member
NestedOfferPrice(json) ==
  IF json.offers.shape = "object" THEN json.offers.items[1].price ELSE Undef

IsProductOrOffer(json) == json.type = "Product" \/ json.type = "Offer"

RECURSIVE ScanJsonLd(_, _)
\* the for loop of extractJsonLd from block i on, inside its try/catch:
\* any exception thrown in the loop makes the whole strategy return null
ScanJsonLd(blocks, i) ==
  IF i > Len(blocks) THEN Null
  ELSE LET json == blocks[i]
       IN  IF ~json.wellFormed THEN Null
           ELSE IF IsProductOrOffer(json)
             THEN (IF SchemaThrows(json) THEN Null ELSE ExtractFromSchema(json))
           ELSE IF Truthy(NestedOfferPrice(json))
             THEN Some(("title" :> json.name)
                       @@ ("price" :> ParseFloat(NestedOfferPrice(json)))
                       @@ ("description" :> json.description))
           ELSE ScanJsonLd(blocks, i + 1)

ExtractJsonLd(doc) == ScanJsonLd(doc.ldBlocks, 1)

(***************************************************************************)
(* extractBasicMeta                                                        *)
(***************************************************************************)
\* ExtractBasicMeta preferring the title element to the meta title
ExtractBasicMetaTitleElementFirst(doc) ==
  LET title == IF doc.titleText # <<>> THEN Str(doc.titleText) ELSE doc.metaTitle
      data == SetIf(Truthy(title), "title", Str(Trim(title.s)))
              @@ SetIf(Truthy(doc.metaDescription), "description",
                       Str(Trim(doc.metaDescription.s)))
  IN  NonEmptyOrNull(data)

ExtractBasicMeta(doc) ==
  LET title == IF Truthy(doc.metaTitle) THEN doc.metaTitle ELSE Str(doc.titleText)
      data == SetIf(Truthy(title), "title", Str(Trim(title.s)))
              @@ SetIf(Truthy(doc.metaDescription), "description",
                       Str(Trim(doc.metaDescription.s)))
  IN  NonEmptyOrNull(data)

(***************************************************************************)
(* extractPrice and extractPriceFromMeta (called by no function)           *)
(***************************************************************************)
RECURSIVE KeepPriceChars(_)
\* str.replace(/[^\d.,]/g, '')
KeepPriceChars(s) ==
  IF s = <<>> THEN <<>>
  ELSE IF IsDigit(Head(s)) \/ Head(s) \in {".", ","}
    THEN <<Head(s)>> \o KeepPriceChars(Tail(s))
    ELSE KeepPriceChars(Tail(s))

RECURSIVE ReplaceFirstComma(_)
\* str.replace(',', '.'): a string pattern replaces its first match only
ReplaceFirstComma(s) ==
  IF s = <<>> THEN <<>>
  ELSE IF Head(s) = "," THEN <<".">> \o Tail(s)
  ELSE <<Head(s)>> \o ReplaceFirstComma(Tail(s))

\* the og:price content, else the first data-price, that parses to a number
\* above 0; null without one
ExtractPriceFromMeta(doc) ==
  LET Scraped(v) ==
        IF Truthy(v) THEN ParseFloatStr(ReplaceFirstComma(KeepPriceChars(v.s)))
        ELSE NaN
      ogPrice == Scraped(doc.ogPrice)
      dataPrice == Scraped(doc.dataPrice)
  IN  IF ogPrice.t = "number" /\ ogPrice.m > 0 THEN ogPrice
      ELSE IF dataPrice.t = "number" /\ dataPrice.m > 0 THEN dataPrice
      ELSE JsNull

ExtractPrice(doc) == ExtractPriceFromMeta(doc)

(***************************************************************************)
(* extractProductInfo after the fetch: steps 2 to 6                        *)
(***************************************************************************)
NoProductInfo == "Could not find product information on this page."

\* SelectRecord with JSON-LD tried before Open Graph
SelectRecordLdFirst(og, ld, basic) ==
  IF ~ld.null THEN ld.data
  ELSE IF ~og.null THEN og.data
  ELSE IF ~basic.null THEN basic.data
  ELSE EmptyObject

\* SelectRecord filling the fields an earlier strategy left out from the
\* later ones
SelectRecordMerged(og, ld, basic) == og.data @@ ld.data @@ basic.data

\* Step 3 and 4: the first strategy whose result is not null, else {}
SelectRecord(og, ld, basic) ==
  IF ~og.null THEN og.data
  ELSE IF ~ld.null THEN ld.data
  ELSE IF ~basic.null THEN basic.data
  ELSE EmptyObject

\* Step 5: if (!data.title && !data.price) throw
RejectsRecord(data) == ~Truthy(Get(data, "title")) /\ ~Truthy(Get(data, "price"))

\* Step 6: if (data.price && isNaN(data.price)) delete data.price
DropInvalidPrice(data) ==
  IF Truthy(Get(data, "price")) /\ IsNaN(Get(data, "price"))
    THEN Delete(data, "price")
    ELSE data

\* ExtractFromDocument with a JSON.parse exception that leaves extractJsonLd
ExtractFromDocumentLdAborts(doc) ==
  LET data == SelectRecord(ExtractOpenGraph(doc), ExtractJsonLd(doc),
                           ExtractBasicMeta(doc))
      aborts == /\ ExtractOpenGraph(doc).null
                /\ \E i \in 1..Len(doc.ldBlocks) : ~doc.ldBlocks[i].wellFormed
  IN  IF aborts
        THEN [ok |-> FALSE, chosen |-> EmptyObject, data |-> EmptyObject,
              message |-> "Unexpected token"]
      ELSE IF RejectsRecord(data)
        THEN [ok |-> FALSE, chosen |-> data, data |-> EmptyObject,
              message |-> NoProductInfo]
        ELSE [ok |-> TRUE, chosen |-> data, data |-> DropInvalidPrice(data),
              message |-> ""]

\* the outcome of extractProductInfo on a fetched document: the record the
\* strategies left in data (chosen), and the record it returns or the message
\* of the Error it throws
ExtractFromDocument(doc) ==
  LET data == SelectRecord(ExtractOpenGraph(doc), ExtractJsonLd(doc),
                           ExtractBasicMeta(doc))
  IN  IF RejectsRecord(data)
        THEN [ok |-> FALSE, chosen |-> data, data |-> EmptyObject,
              message |-> NoProductInfo]
        ELSE [ok |-> TRUE, chosen |-> data, data |-> DropInvalidPrice(data),
              message |-> ""]

(***************************************************************************)
(* The route POST /api/extract-link and fetchUrl.                          *)
(***************************************************************************)
HttpPrefix == <<"h", "t", "t", "p", ":", "/", "/">>
HttpsPrefix == <<"h", "t", "t", "p", "s", ":", "/", "/">>

\* new URL(url) does not throw.  Every url that reaches it starts with one
\* of the two prefixes; the parser then wants a host, and a host holds no
\* white space.
WellFormedUrl(url) ==
  \E p \in {HttpPrefix, HttpsPrefix} :
    /\ StartsWith(url, p)
    /\ LET host == SubSeq(url, Len(p) + 1, Len(url))
       IN  host # <<>> /\ \A i \in 1..Len(host) : ~IsSpace(host[i])

\* a route that fetches the url as it was given
AddProtocolNever(url) == url

\* Add protocol if missing
AddProtocol(url) ==
  IF ~StartsWith(url, HttpPrefix) /\ ~StartsWith(url, HttpsPrefix)
    THEN HttpsPrefix \o url
    ELSE url

\* response.ok
StatusOk(status) == status >= 200 /\ status <= 299

UrlRequired == "URL is required"
InvalidUrlFormat == "Invalid URL format. Please enter a valid URL."
RequestTimedOut == "Request timed out. Website took too long to respond."
\* a message that leaves the status code out
UpstreamMessageBare(status) == "Website returned error"

UpstreamMessage(status) == "Website returned error: " \o ToString(status)
ManualFallback == "Could not extract product information. Please fill in manually."
\* messages of the TypeErrors the platform raises: a rejected fetch, a
\* response body that ends early, a method call on a value without it
FetchFailed == "fetch failed"
BodyTerminated == "terminated"
TrimNotAFunction == "url.trim is not a function"

Error(name, message) == [name |-> name, message |-> message]

\* what res.json writes for the extracted record: JSON.stringify leaves out
\* members whose value is undefined and writes NaN as null
SerialiseData(data) ==
  [k \in {x \in DOMAIN data : data[x].t # "undefined"} |->
     IF data[k].t = "NaN" THEN JsNull ELSE data[k]]

\* res.json({ success: true, data: extractedData })
SuccessResponse(data) ==
  [status |-> 200, body |-> ("success" :> TRUE) @@ ("data" :> SerialiseData(data))]

\* the catch block of the route:
\* res.status(400).json({ success: false, error: error.message || '...' })
FailureResponse(err) ==
  [status |-> 400,
   body |-> ("success" :> FALSE)
            @@ ("error" :> IF err.message # "" THEN err.message ELSE ManualFallback)]

\* return res.status(400).json({ error: 'URL is required' })
UrlRequiredResponse == [status |-> 400, body |-> ("error" :> UrlRequired)]

(***************************************************************************)
(* The inputs: request bodies and the pages the web serves.                *)
(***************************************************************************)
\* all sequences over A of length at most n
SeqsUpTo(A, n) == UNION {[1..k -> A] : k \in 0..n}

Host == <<"a">>

\* req.body.url: missing, empty, blank, with and without a scheme, padded,
\* not a URL, and not a string
UrlInputs ==
  { Undef, Str(<<>>), Str(<<" ">>),
    Str(HttpsPrefix \o Host), Str(HttpPrefix \o Host), Str(Host),
    Str(<<" ">> \o Host \o <<" ">>),
    Str(<<"a", " ", "b">>), Str(HttpsPrefix),
    Number(5, 0) }

\* response statuses the fetched site answers with
Statuses == {200, 404, 500}

PriceAlphabet == {"0", "1", "5", ",", ".", " ", "-", "k"}

\* og:price contents named in the documentation of the extractor:
\* "1 299,00", "999,50 SEK", "price on request", "kr.", "399"
PriceFixtures ==
  { <<"1", " ", "2", "9", "9", ",", "0", "0">>,
    <<"9", "9", "9", ",", "5", "0", " ", "S", "E", "K">>,
    <<"p", "r", "i", "c", "e", " ", "o", "n", " ", "r", "e", "q", "u", "e", "s", "t">>,
    <<"k", "r", ".">>,
    <<"3", "9", "9">> }

PriceStrings == SeqsUpTo(PriceAlphabet, MaxLen) \cup PriceFixtures

NoOg(ld, mt, tt, md) == Document(Undef, Undef, Undef, Undef, ld, mt, tt, md)

\* pages whose only signals are Open Graph title and price
OgPricePages ==
  { Document(t, Str(p), Undef, Undef, <<>>, Undef, <<>>, Undef) :
      t \in {Undef, Str(<<" ">>), Str(<<"O">>), Str(<<" ", "O">>)},
      p \in PriceStrings }

LdPrices == {Undef, Str(<<"7">>), Str(<<"-", "7">>), Str(<<"x">>)}

LdOffers ==
  {Absent, List(<<>>)}
    \cup {Single(Offer(p)) : p \in LdPrices}
    \cup {List(<<Offer(Str(<<"7">>))>>)}

LdBlocks ==
  {Malformed}
    \cup { Block(ty, nm, Undef, Absent, of) :
             ty \in {"Product", "WebSite"},
             nm \in {Undef, Str(<<"J">>)},
             of \in LdOffers }

\* pages without Open Graph tags: every list of at most MaxBlocks blocks,
\* with and without a title element
LdPages ==
  { NoOg(ld, Undef, tt, Undef) :
      ld \in SeqsUpTo(LdBlocks, MaxBlocks), tt \in {<<>>, <<"E">>} }

Billy ==
  Block("Product", Str(<<"B", "I", "L", "L", "Y">>), Undef, Absent,
        Single(Offer(Str(<<"3", "9", "9">>))))

\* block lists for the pages that carry signals for several strategies
CascadeLd ==
  { <<>>, <<Malformed>>, <<Billy>>, <<Malformed, Billy>>,
    <<Block("Product", Undef, Undef, Absent, Absent)>>,
    <<Block("Offer", Undef, Str(<<"j">>), List(<<Str(<<"g">>), Str(<<"h">>)>>), Absent)>>,
    <<Block("Product", Undef, Undef, List(<<>>), Absent)>>,
    <<Block("WebSite", Undef, Undef, Absent, Single(Offer(Str(<<"7">>))))>>,
    <<Block("WebSite", Str(<<"J">>), Undef, Single(Str(<<"g">>)),
            Single(Offer(Str(<<"7">>))))>> }

CascadePages ==
  { Document(ot, op, od, oi, ld, mt, tt, md) :
      ot \in {Undef, Str(<<"O">>)},
      op \in {Undef, Str(<<"5">>), Str(<<"0">>), Str(<<"x">>)},
      od \in {Undef, Str(<<"d">>)},
      oi \in {Undef, Str(<<"i">>)},
      ld \in CascadeLd,
      mt \in {Undef, Str(<<"M">>)},
      tt \in {<<>>, <<"E">>},
      md \in {Undef, Str(<<"m", " ">>)} }

\* pages whose only signals are a title element and a data-price attribute
DataPricePages ==
  { WithDataPrice(NoOg(<<>>, Undef, tt, Undef), Str(p)) :
      tt \in {<<>>, <<"E">>},
      p \in {<<"5">>, <<"2", ",", "5">>, <<"0">>, <<"x">>} }

Pages == OgPricePages \cup LdPages \cup CascadePages \cup DataPricePages

\* the pages a static site may consist of
StaticPages ==
  { doc \in CascadePages :
      /\ doc.ogDescription = Undef
      /\ doc.ogImage = Undef
      /\ doc.metaDescription = Undef }

(***************************************************************************)
(* State of the link-extraction server.                                    *)
(*   pc             where the handler of the current request stands:       *)
(*                  "idle", "headers" (await fetch), "body" (await         *)
(*                  response.text()), "responded"                          *)
(*   requested      <<url>>, the url member of the body of the request     *)
(*                  being handled; <<>> once the fetch made for it has     *)
(*                  settled (the handler does not read it afterwards)      *)
(*   fetching       the url of the outbound request in flight, <<>> when   *)
(*                  there is none                                          *)
(*   outbound       how many times the handler of the current request has  *)
(*                  called fetch                                           *)
(*   upstreamStatus the status of the response the fetched site gave to    *)
(*                  the current request, 0 while it has given none         *)
(*   timeoutArmed   the setTimeout of the current fetchUrl is pending      *)
(*   staleTimers    a setTimeout of an earlier fetchUrl is still pending   *)
(*   html           <<doc>> once the page has been fetched and parsed      *)
(*   chosen         <<data>> once the strategies have run: the value of    *)
(*                  data when extractProductInfo validates it (Step 5)     *)
(*   extractedData  <<data>> once extractProductInfo has returned          *)
(*   thrown         <<error>> once an error has reached the route's catch  *)
(*   response       <<[status, body]>> once the route has answered         *)
(*   served         <<doc>> when the fetched site is static and serves     *)
(*                  doc on every request, <<>> when it may serve any page  *)
(*   firstResult    on a static site, <<[out, again]>> once a page has     *)
(*                  been extracted: out is the outcome of the first        *)
(*                  extraction, again tells that a later one has ended     *)
(* State of the purchase store.                                            *)
(*   purchasesTable the rows of the table purchases, by id                 *)
(*   sequence       the largest id AUTOINCREMENT has given out             *)
(*   dbOutcome      how the last call of addPurchase, updatePurchase or    *)
(*                  deletePurchase made from outside the routes ended:     *)
(*                  "returned" or the message of the error thrown, ""      *)
(*                  before the first call                                  *)
(* State of the page.                                                      *)
(*   linkField, nameField, costField                                       *)
(*                  the text in the inputs new-link, new-name, new-cost    *)
(*   extractionInProgress                                                  *)
(*                  the flag of that name                                  *)
(*   extractions    the calls of extractProductFromLink that are           *)
(*                  suspended: at "fetch" (await fetch) or at "json"       *)
(*                  (await response.json(), reply being the response)      *)
(*   extractionStatus                                                      *)
(*                  what the element extraction-status shows, <<>> when    *)
(*                  it is hidden                                           *)
(*   statusTimers   how many setTimeout(clearExtractionStatus) are pending *)
(*   purchases      the array of that name, which the list shows           *)
(*   totals         <<totals>> once renderTotals has shown them            *)
(*   ops            the operations on the list that are under way          *)
(*   remaining      how many more operations on the list the user starts   *)
(***************************************************************************)
VARIABLES pc, requested, fetching, outbound, upstreamStatus, timeoutArmed,
          staleTimers, html, chosen, extractedData, thrown, response,
          served, firstResult,
          purchasesTable, sequence, dbOutcome,
          linkField, nameField, costField, extractionInProgress, extractions,
          extractionStatus, statusTimers,
          purchases, totals, ops, remaining

serverVars == <<pc, requested, fetching, outbound, upstreamStatus,
                timeoutArmed, staleTimers, html, chosen, extractedData,
                thrown, response, served, firstResult>>

storeVars == <<purchasesTable, sequence, dbOutcome>>

formVars == <<linkField, nameField, costField, extractionInProgress,
              extractions, extractionStatus, statusTimers>>

uiVars == <<purchases, totals, ops, remaining>>

vars == <<serverVars, storeVars, formVars, uiVars>>

outsideServer == <<storeVars, formVars, uiVars>>
outsideStore == <<serverVars, formVars, uiVars>>

ServerStarts ==
  /\ pc = "idle"
  /\ requested = <<>>
  /\ fetching = <<>>
  /\ outbound = 0
  /\ upstreamStatus = 0
  /\ timeoutArmed = FALSE
  /\ staleTimers = FALSE
  /\ html = <<>>
  /\ chosen = <<>>
  /\ extractedData = <<>>
  /\ thrown = <<>>
  /\ response = <<>>
  /\ firstResult = <<>>

\* the table is empty
StoreStarts ==
  /\ purchasesTable = <<>>
  /\ sequence = 0
  /\ dbOutcome = ""

\* the route's catch block answers for an error thrown below it
Fail(err) ==
  /\ pc' = "responded"
  /\ fetching' = <<>>
  /\ thrown' = <<err>>
  /\ extractedData' = <<>>
  /\ response' = <<FailureResponse(err)>>

\* the route answers with the record extractProductInfo returned
Succeed(data) ==
  /\ pc' = "responded"
  /\ fetching' = <<>>
  /\ thrown' = <<>>
  /\ extractedData' = <<data>>
  /\ response' = <<SuccessResponse(data)>>

\* fetchUrl of a handler that calls fetch again when it has rejected
FetchRejectsRetried ==
  /\ pc = "headers"
  /\ IF outbound < 2
       THEN /\ outbound' = outbound + 1
            /\ UNCHANGED <<pc, requested, fetching, timeoutArmed, thrown,
                           extractedData, response, staleTimers>>
       ELSE /\ Fail(Error("TypeError", FetchFailed))
            /\ requested' = <<>>
            /\ timeoutArmed' = FALSE
            /\ staleTimers' = (staleTimers \/ timeoutArmed)
            /\ UNCHANGED outbound
  /\ UNCHANGED <<upstreamStatus, html, chosen, served, firstResult>>
  /\ UNCHANGED outsideServer

\* an extractor whose position in the page's ld+json blocks outlives the
\* call: a later extraction of the page resumes after the first block
DocumentResumed(doc) ==
  IF firstResult # <<>> /\ doc.ldBlocks # <<>>
    THEN [doc EXCEPT !.ldBlocks = Tail(doc.ldBlocks)]
    ELSE doc

NoteResult(out) ==
  firstResult' =
    IF served = <<>> THEN firstResult
    ELSE IF firstResult = <<>> THEN <<[out |-> out, again |-> FALSE]>>
    ELSE <<[firstResult[1] EXCEPT !.again = TRUE]>>

BodyResolvesResumed ==
  /\ pc = "body"
  /\ \E doc \in (IF served = <<>> THEN Pages ELSE {served[1]}) :
       /\ html' = <<doc>>
       /\ LET out == ExtractFromDocument(DocumentResumed(doc))
          IN  /\ chosen' = <<out.chosen>>
              /\ NoteResult(out)
              /\ IF out.ok THEN Succeed(out.data)
                 ELSE Fail(Error("Error", out.message))
  /\ UNCHANGED <<requested, outbound, upstreamStatus, timeoutArmed,
                 staleTimers, served>>
  /\ UNCHANGED outsideServer

\* A request arrives; the handler runs up to its first suspension: the
\* await of fetch inside fetchUrl.  One request is handled at a time.
Request ==
  /\ pc \in {"idle", "responded"}
  /\ \E url \in UrlInputs :
       /\ requested' = <<url>>
       /\ IF ~Truthy(url) \/ (url.t = "string" /\ Trim(url.s) = <<>>) THEN
            \* !url || !url.trim()
            /\ pc' = "responded"
            /\ response' = <<UrlRequiredResponse>>
            /\ thrown' = <<>>
            /\ extractedData' = <<>>
            /\ fetching' = <<>>
            /\ outbound' = 0
            /\ timeoutArmed' = FALSE
          ELSE IF url.t # "string" THEN
            \* url.trim() on a value that is no string
            /\ Fail(Error("TypeError", TrimNotAFunction))
            /\ outbound' = 0
            /\ timeoutArmed' = FALSE
          ELSE
            LET urlToFetch == AddProtocol(Trim(url.s))
            IN  IF ~WellFormedUrl(urlToFetch) THEN
                  \* new URL(url) throws
                  /\ Fail(Error("Error", InvalidUrlFormat))
                  /\ outbound' = 0
                  /\ timeoutArmed' = FALSE
                ELSE
                  \* setTimeout(() => controller.abort(), timeout);
                  \* await fetch(url, ...)
                  /\ pc' = "headers"
                  /\ fetching' = urlToFetch
                  /\ outbound' = 1
                  /\ timeoutArmed' = TRUE
                  /\ thrown' = <<>>
                  /\ extractedData' = <<>>
                  /\ response' = <<>>
  /\ upstreamStatus' = 0
  /\ html' = <<>>
  /\ chosen' = <<>>
  /\ UNCHANGED <<staleTimers, served, firstResult>>
  /\ UNCHANGED outsideServer

\* fetch resolves with the response headers; clearTimeout(timeoutId)
FetchResolves ==
  /\ pc = "headers"
  /\ \E status \in Statuses :
       /\ upstreamStatus' = status
       /\ IF ~StatusOk(status)
            THEN Fail(Error("Error", UpstreamMessage(status)))
            ELSE /\ pc' = "body"
                 /\ UNCHANGED <<fetching, thrown, extractedData, response>>
  /\ requested' = <<>>
  /\ timeoutArmed' = FALSE
  /\ UNCHANGED <<outbound, staleTimers, html, chosen, served, firstResult>>
  /\ UNCHANGED outsideServer

\* fetch rejects (DNS, connection refused, TLS): the timer is not cleared
\* and stays pending after the handler has answered
FetchRejects ==
  /\ pc = "headers"
  /\ Fail(Error("TypeError", FetchFailed))
  /\ requested' = <<>>
  /\ timeoutArmed' = FALSE
  /\ staleTimers' = (staleTimers \/ timeoutArmed)
  /\ UNCHANGED <<outbound, upstreamStatus, html, chosen, served, firstResult>>
  /\ UNCHANGED outsideServer

\* the timer of the current fetchUrl fires: controller.abort() rejects
\* what the handler awaits on the aborted request with an AbortError, which
\* the catch of fetchUrl turns into the time-out Error
TimeoutFires ==
  /\ timeoutArmed
  /\ pc \in {"headers", "body"}
  /\ timeoutArmed' = FALSE
  /\ Fail(Error("Error", RequestTimedOut))
  /\ requested' = <<>>
  /\ UNCHANGED <<outbound, upstreamStatus, staleTimers, html, chosen,
                 served, firstResult>>
  /\ UNCHANGED outsideServer

\* the timer of a fetchUrl that has ended fires: abort() has no effect
StaleTimeoutFires ==
  /\ staleTimers
  /\ staleTimers' = FALSE
  /\ UNCHANGED <<pc, requested, fetching, outbound, upstreamStatus,
                 timeoutArmed, html, chosen, extractedData, thrown, response,
                 served, firstResult>>
  /\ UNCHANGED outsideServer

\* response.text() resolves with the markup of doc; cheerio.load and the
\* rest of extractProductInfo run, and the route answers
BodyResolves ==
  /\ pc = "body"
  /\ \E doc \in (IF served = <<>> THEN Pages ELSE {served[1]}) :
       /\ html' = <<doc>>
       /\ LET out == ExtractFromDocument(doc)
          IN  /\ chosen' = <<out.chosen>>
              /\ NoteResult(out)
              /\ IF out.ok THEN Succeed(out.data)
                 ELSE Fail(Error("Error", out.message))
  /\ UNCHANGED <<requested, outbound, upstreamStatus, timeoutArmed,
                 staleTimers, served>>
  /\ UNCHANGED outsideServer

\* response.text() rejects: the connection broke while the body was read
BodyRejects ==
  /\ pc = "body"
  /\ Fail(Error("TypeError", BodyTerminated))
  /\ UNCHANGED <<requested, outbound, upstreamStatus, timeoutArmed,
                 staleTimers, html, chosen, served, firstResult>>
  /\ UNCHANGED outsideServer

Next ==
  \/ Request
  \/ FetchResolves
  \/ FetchRejects
  \/ TimeoutFires
  \/ StaleTimeoutFires
  \/ BodyResolves
  \/ BodyRejects


(***************************************************************************)
(* The purchase store (database.js): the table purchases, the functions    *)
(* that write it and getTotals.                                            *)
(***************************************************************************)
NameRequired == "Product name is required"
CostRequired == "Cost is required"
CostInvalid == "Cost must be a valid positive number"
NameTrimNotAFunction == "name.trim is not a function"
NotFound(id) == "Purchase with ID " \o ToString(id) \o " not found"

\* the arguments of addPurchase and updatePurchase after the id
Args(name, link, cost, bought, comments, room) ==
  [name |-> name, link |-> link, cost |-> cost, bought |-> bought,
   comments |-> comments, room |-> room]

DigitChar(d) ==
  CASE d = 0 -> "0" [] d = 1 -> "1" [] d = 2 -> "2" [] d = 3 -> "3"
    [] d = 4 -> "4" [] d = 5 -> "5" [] d = 6 -> "6" [] d = 7 -> "7"
    [] d = 8 -> "8" [] d = 9 -> "9"

RECURSIVE NatText(_)
NatText(n) ==
  IF n < 10 THEN <<DigitChar(n)>>
  ELSE NatText(n \div 10) \o <<DigitChar(n % 10)>>

RECURSIVE PadLeft(_, _)
PadLeft(s, n) == IF Len(s) >= n THEN s ELSE PadLeft(<<"0">> \o s, n)

\* String(v) of a number, as an input element shows it
NumberText(v) ==
  LET mag == IF v.m < 0 THEN 0 - v.m ELSE v.m
      whole == NatText(mag \div Pow10(v.e))
      frac == IF v.e = 0 THEN <<>>
              ELSE <<".">> \o PadLeft(NatText(mag % Pow10(v.e)), v.e)
  IN  (IF v.m < 0 THEN <<"-">> ELSE <<>>) \o whole \o frac

\* the text SQLite makes of a REAL: a whole number is written with ".0"
RealText(v) == IF v.e = 0 THEN NumberText(v) \o <<".", "0">> ELSE NumberText(v)

\* a column declared TEXT stores a number bound to it as its text
TextAffinity(v) == IF v.t = "number" THEN Str(RealText(v)) ELSE v

\* v || ''
OrEmpty(v) == IF Truthy(v) THEN v ELSE Str(<<>>)

\* Rejection without the test numericCost < 0
RejectionSignUnchecked(p) ==
  IF ~Truthy(p.name) THEN <<Error("Error", NameRequired)>>
  ELSE IF p.name.t # "string" THEN <<Error("TypeError", NameTrimNotAFunction)>>
  ELSE IF Trim(p.name.s) = <<>> THEN <<Error("Error", NameRequired)>>
  ELSE IF p.cost.t \in {"undefined", "null"} THEN <<Error("Error", CostRequired)>>
  ELSE IF IsNaN(ParseFloat(p.cost)) THEN <<Error("Error", CostInvalid)>>
  ELSE <<>>

\* the checks addPurchase and updatePurchase make before they run their
\* statement: the error they throw, <<>> when they throw none
Rejection(p) ==
  IF ~Truthy(p.name) THEN <<Error("Error", NameRequired)>>
  ELSE IF p.name.t # "string" THEN <<Error("TypeError", NameTrimNotAFunction)>>
  ELSE IF Trim(p.name.s) = <<>> THEN <<Error("Error", NameRequired)>>
  ELSE IF p.cost.t \in {"undefined", "null"} THEN <<Error("Error", CostRequired)>>
  ELSE IF IsNaN(ParseFloat(p.cost)) \/ ParseFloat(p.cost).m < 0
    THEN <<Error("Error", CostInvalid)>>
  ELSE <<>>

\* a statement that binds bought as it was passed when it is a number
StoredRowUnchecked(p) ==
  [name |-> Str(Trim(p.name.s)), link |-> OrEmpty(p.link),
   cost |-> ParseFloat(p.cost),
   bought |-> IF p.bought.t = "number" THEN p.bought.m
              ELSE IF Truthy(p.bought) THEN 1 ELSE 0,
   comments |-> OrEmpty(p.comments), room |-> OrEmpty(p.room)]

\* the values stmt.run binds to the columns, which are the members of the
\* object the function returns
BoundRow(p) ==
  [name |-> Str(Trim(p.name.s)), link |-> OrEmpty(p.link),
   cost |-> ParseFloat(p.cost),
   bought |-> IF Truthy(p.bought) THEN 1 ELSE 0,
   comments |-> OrEmpty(p.comments), room |-> OrEmpty(p.room)]

\* the row the table holds after stmt.run
StoredRow(p) ==
  [BoundRow(p) EXCEPT !.link = TextAffinity(@), !.comments = TextAffinity(@),
                      !.room = TextAffinity(@)]

\* the outcome of a store function: the error it throws or the value it
\* returns, and the table and the AUTOINCREMENT sequence it leaves
Throws(err, table, seq) ==
  [error |-> <<err>>, value |-> <<>>, table |-> table, seq |-> seq]
Returns(value, table, seq) ==
  [error |-> <<>>, value |-> <<value>>, table |-> table, seq |-> seq]

\* a row as the callers see it: the columns and the id
WithId(id, row) == [id |-> id] @@ row

AddPurchase(table, seq, p) ==
  IF Rejection(p) # <<>> THEN Throws(Rejection(p)[1], table, seq)
  ELSE LET id == seq + 1
       IN  Returns(WithId(id, BoundRow(p)), (id :> StoredRow(p)) @@ table, id)

UpdatePurchase(table, seq, id, p) ==
  IF Rejection(p) # <<>> THEN Throws(Rejection(p)[1], table, seq)
  ELSE IF id \notin DOMAIN table
    THEN \* result.changes === 0
         Throws(Error("Error", NotFound(id)), table, seq)
  ELSE Returns(WithId(id, BoundRow(p)),
               [table EXCEPT ![id] = StoredRow(p)], seq)

DeletedMessage == "Purchase deleted successfully"

\* DeletePurchase without the test result.changes === 0
DeletePurchaseUnchecked(table, seq, id) ==
  Returns([success |-> TRUE, message |-> DeletedMessage],
          [i \in (DOMAIN table) \ {id} |-> table[i]], seq)

DeletePurchase(table, seq, id) ==
  IF id \notin DOMAIN table
    THEN Throws(Error("Error", NotFound(id)), table, seq)
    ELSE Returns([success |-> TRUE, message |-> DeletedMessage],
                 [i \in (DOMAIN table) \ {id} |-> table[i]], seq)

\* a + b for two numbers
Plus(a, b) ==
  LET e == IF a.e >= b.e THEN a.e ELSE b.e
  IN  Number(a.m * Pow10(e - a.e) + b.m * Pow10(e - b.e), e)

Zero == Number(0, 0)

RECURSIVE SumCost(_, _)
\* SUM(cost) over the rows ids
SumCost(table, ids) ==
  IF ids = {} THEN Zero
  ELSE LET i == CHOOSE j \in ids : TRUE
       IN  Plus(table[i].cost, SumCost(table, ids \ {i}))

RECURSIVE SumCase(_, _, _)
\* SUM(CASE WHEN bought = v THEN cost ELSE 0 END) over the rows ids
SumCase(table, ids, v) ==
  IF ids = {} THEN Zero
  ELSE LET i == CHOOSE j \in ids : TRUE
           term == IF table[i].bought = v THEN table[i].cost ELSE Zero
       IN  Plus(term, SumCase(table, ids \ {i}, v))

\* SUM(CASE WHEN bought = 1 THEN 1 ELSE 0 END)
CountBought(table) == Cardinality({i \in DOMAIN table : table[i].bought = 1})

\* getTotals: an aggregate over no row is NULL, which COALESCE or || 0
\* turns into 0
GetTotals(table) ==
  [totalCount |-> Cardinality(DOMAIN table),
   totalCost |-> SumCost(table, DOMAIN table),
   purchasedCount |-> CountBought(table),
   purchasedCost |-> SumCase(table, DOMAIN table, 1),
   unpurchasedCost |-> SumCase(table, DOMAIN table, 0)]

\* what the callers of the store functions pass
NameN == Str(<<"n">>)
StoreInputs ==
  { Args(Str(<<" ", "n", " ">>), Undef, Number(5, 0), b, Undef, Undef) :
      b \in {Bool(TRUE), Bool(FALSE)} }
    \cup
  { Args(Str(<<" ", "n", " ">>), Undef, Str(<<"2", ".", "5">>), b, Undef, Undef) :
      b \in {Undef, Number(2, 0)} }
    \cup
  { Args(n, Undef, Number(5, 0), Bool(FALSE), Undef, Undef) :
      n \in {Undef, Str(<<>>), Str(<<" ">>), Number(5, 0)} }
    \cup
  { Args(NameN, Undef, c, Bool(FALSE), Undef, Str(<<"k">>)) :
      c \in {Undef, JsNull, Str(<<"x">>), Number(0 - 1, 0), Number(0, 0)} }
    \cup
  { Args(NameN, Number(5, 0), Number(5, 0), Bool(TRUE), JsNull, Number(0, 0)),
    Args(NameN, Str(<<"l">>), Str(<<"5">>), Bool(FALSE), Str(<<"c">>), Undef) }

\* the ids the callers pass: of rows that exist, existed or never did
StoreIds == 1..(MaxPurchases + 1)

Outcome(r) == IF r.error # <<>> THEN r.error[1].message ELSE "returned"

Store(r) ==
  /\ purchasesTable' = r.table
  /\ sequence' = r.seq

\* addPurchase is called
AddPurchaseCalled ==
  /\ sequence < MaxPurchases
  /\ \E p \in StoreInputs :
       LET r == AddPurchase(purchasesTable, sequence, p)
       IN  Store(r) /\ dbOutcome' = Outcome(r)
  /\ UNCHANGED outsideStore

\* updatePurchase is called
UpdatePurchaseCalled ==
  /\ \E id \in StoreIds, p \in StoreInputs :
       LET r == UpdatePurchase(purchasesTable, sequence, id, p)
       IN  Store(r) /\ dbOutcome' = Outcome(r)
  /\ UNCHANGED outsideStore

\* deletePurchase is called
DeletePurchaseCalled ==
  /\ \E id \in StoreIds :
       LET r == DeletePurchase(purchasesTable, sequence, id)
       IN  Store(r) /\ dbOutcome' = Outcome(r)
  /\ UNCHANGED outsideStore

StoreNext ==
  \/ AddPurchaseCalled
  \/ UpdatePurchaseCalled
  \/ DeletePurchaseCalled


(***************************************************************************)
(* The CRUD routes of server.js, as functions of the table.                *)
(***************************************************************************)
\* getAllPurchases: the rows with their ids (their order is left out)
GetAllPurchases(table) == {WithId(i, table[i]) : i \in DOMAIN table}

\* the route answers 400 itself: !name || !name.trim(), or cost undefined,
\* null or ''
RouteRejects(p) ==
  \/ ~Truthy(p.name)
  \/ p.name.t = "string" /\ Trim(p.name.s) = <<>>
  \/ p.cost.t \in {"undefined", "null"}
  \/ p.cost = Str(<<>>)

\* the status a writing route answers with when the store function it
\* called ended as r: its success status, or 500 from the catch block
RouteStatus(r, success) == IF r.error # <<>> THEN 500 ELSE success

\* response.ok
ResponseOk(status) == status >= 200 /\ status <= 299

(***************************************************************************)
(* The page (app.js): the add-purchase form with link extraction, and the  *)
(* operations on the list.                                                 *)
(***************************************************************************)
\* isValidUrl
IsValidUrl(string) ==
  WellFormedUrl(IF StartsWith(string, <<"h", "t", "t", "p">>)
                  THEN string
                  ELSE HttpsPrefix \o string)

PleaseEnterValidUrl == "Please enter a valid URL"
ExtractingProductInfo == "Extracting product info..."
CouldNotExtract == "Could not extract product info"
CouldNotReachWebsite == "Could not reach website. Please fill in manually."
ExtractedPrefix == "Extracted: "

\* what the status element shows: its class and its text (title is the
\* product title a success message ends with)
Status(type, text, title) == <<[type |-> type, text |-> text, title |-> title]>>
Hidden == <<>>

\* what the user may leave in the link field: white space, a padded host
\* and a text that is no url
LinkInputs ==
  { <<" ">>, <<" ">> \o Host, <<"a", " ", "b">> }

\* what the user may type into the name and cost fields
FormInputs ==
  { [name |-> <<"n">>, cost |-> <<"5">>],
    [name |-> <<"n">>, cost |-> <<"x">>] }

\* pages behind the links the user pastes: with title and price, with a
\* title only and with a price only
LinkedPages ==
  { Document(Str(<<"O">>), Str(<<"5">>), Undef, Undef, <<>>, Undef, <<>>, Undef),
    Document(Str(<<"O">>), Undef, Undef, Undef, <<>>, Undef, <<>>, Undef),
    Document(Undef, Str(<<"2", ".", "5">>), Undef, Undef, <<>>, Undef, <<>>, Undef) }

\* the answers of POST /api/extract-link the page may get
ExtractReplies ==
  { SuccessResponse(ExtractFromDocument(doc).data) : doc \in LinkedPages }
    \cup { FailureResponse(Error("Error", NoProductInfo)) }

NoReply == [status |-> 0, body |-> <<>>]

\* an extractProductFromLink that does not look at extractionInProgress
ExtractProductFromLinkUnguarded(url) ==
  IF url = <<>> THEN
    UNCHANGED <<extractionInProgress, extractions, extractionStatus>>
  ELSE IF ~IsValidUrl(url) THEN
    /\ extractionStatus' = Status("invalid-url", PleaseEnterValidUrl, <<>>)
    /\ UNCHANGED <<extractionInProgress, extractions>>
  ELSE
    /\ extractionInProgress' = TRUE
    /\ extractionStatus' = Status("loading", ExtractingProductInfo, <<>>)
    /\ extractions' = Append(extractions, [at |-> "fetch", url |-> url, reply |-> NoReply])

\* extractProductFromLink up to its first suspension, the await of fetch
ExtractProductFromLink(url) ==
  IF url = <<>> \/ extractionInProgress THEN
    UNCHANGED <<extractionInProgress, extractions, extractionStatus>>
  ELSE IF ~IsValidUrl(url) THEN
    /\ extractionStatus' = Status("invalid-url", PleaseEnterValidUrl, <<>>)
    /\ UNCHANGED <<extractionInProgress, extractions>>
  ELSE
    /\ extractionInProgress' = TRUE
    /\ extractionStatus' = Status("loading", ExtractingProductInfo, <<>>)
    /\ extractions' = Append(extractions, [at |-> "fetch", url |-> url, reply |-> NoReply])

\* the sequence without its i-th element
Without(seq, i) == SubSeq(seq, 1, i - 1) \o SubSeq(seq, i + 1, Len(seq))

\* the user leaves the link field with a new content: the change listener
LinkChanged ==
  /\ statusTimers <= MaxTimers
  /\ \E text \in LinkInputs :
       /\ text # linkField
       /\ linkField' = text
       /\ IF Trim(text) # <<>>
            THEN ExtractProductFromLink(Trim(text))
            ELSE \* clearExtractionStatus()
                 /\ extractionStatus' = Hidden
                 /\ UNCHANGED <<extractionInProgress, extractions>>
  /\ UNCHANGED <<nameField, costField, statusTimers>>
  /\ UNCHANGED <<uiVars, serverVars, storeVars>>

\* the user types a name and a cost
FormFilled ==
  /\ \E input \in FormInputs :
       /\ nameField' = input.name
       /\ costField' = input.cost
  /\ UNCHANGED <<linkField, extractionInProgress, extractions,
                 extractionStatus, statusTimers>>
  /\ UNCHANGED <<uiVars, serverVars, storeVars>>

\* await fetch('/api/extract-link') resolves with a response
ExtractionFetchResolves ==
  /\ \E i \in 1..Len(extractions) :
       /\ extractions[i].at = "fetch"
       /\ \E reply \in ExtractReplies :
            extractions' = [extractions EXCEPT ![i].at = "json", ![i].reply = reply]
  /\ UNCHANGED <<linkField, nameField, costField, extractionInProgress,
                 extractionStatus, statusTimers>>
  /\ UNCHANGED <<uiVars, serverVars, storeVars>>

\* the catch and the finally block of extractProductFromLink, without the
\* finally block
ExtractionThrowsFlagKept(i) ==
  /\ extractionStatus' = Status("error", CouldNotReachWebsite, <<>>)
  /\ extractions' = Without(extractions, i)
  /\ UNCHANGED <<linkField, nameField, costField, statusTimers,
                 extractionInProgress>>

\* the catch and the finally block of extractProductFromLink
ExtractionThrows(i) ==
  /\ extractionStatus' = Status("error", CouldNotReachWebsite, <<>>)
  /\ extractionInProgress' = FALSE
  /\ extractions' = Without(extractions, i)
  /\ UNCHANGED <<linkField, nameField, costField, statusTimers>>

\* await fetch('/api/extract-link') rejects: the server cannot be reached
ExtractionFetchRejects ==
  /\ \E i \in 1..Len(extractions) :
       /\ extractions[i].at = "fetch"
       /\ ExtractionThrows(i)
  /\ UNCHANGED <<uiVars, serverVars, storeVars>>

\* await response.json() rejects: the body is cut short
ExtractionBodyRejects ==
  /\ \E i \in 1..Len(extractions) :
       /\ extractions[i].at = "json"
       /\ ExtractionThrows(i)
  /\ UNCHANGED <<uiVars, serverVars, storeVars>>

\* await response.json() resolves: the rest of extractProductFromLink
ExtractionBodyResolves ==
  /\ \E i \in 1..Len(extractions) :
       /\ extractions[i].at = "json"
       /\ extractions' = Without(extractions, i)
       /\ extractionInProgress' = FALSE
       /\ LET reply == extractions[i].reply
              result == reply.body
          IN  IF ~ResponseOk(reply.status) THEN
                \* result.error || 'Could not extract product info'
                /\ extractionStatus' =
                     Status("error",
                            IF Has(result, "error") /\ result["error"] # ""
                              THEN result["error"] ELSE CouldNotExtract,
                            <<>>)
                /\ UNCHANGED <<nameField, costField, statusTimers>>
              ELSE
                LET data == result["data"]
                    title == Get(data, "title")
                    price == Get(data, "price")
                IN  /\ nameField' = IF Truthy(title) THEN title.s ELSE nameField
                    /\ costField' = IF Truthy(price) THEN NumberText(price)
                                    ELSE costField
                    /\ extractionStatus' =
                         Status("success", ExtractedPrefix,
                                IF Truthy(title) THEN title.s
                                ELSE <<"P", "r", "o", "d", "u", "c", "t">>)
                    \* setTimeout(() => clearExtractionStatus(), 3000)
                    /\ statusTimers' = statusTimers + 1
  /\ UNCHANGED linkField
  /\ UNCHANGED <<uiVars, serverVars, storeVars>>

\* a timer set after a success fires: clearExtractionStatus()
StatusTimerFires ==
  /\ statusTimers > 0
  /\ statusTimers' = statusTimers - 1
  /\ extractionStatus' = Hidden
  /\ UNCHANGED <<linkField, nameField, costField, extractionInProgress,
                 extractions>>
  /\ UNCHANGED <<uiVars, serverVars, storeVars>>

(***************************************************************************)
(* Operations on the list.  An operation is one call of the page's         *)
(* addPurchase, updatePurchase or deletePurchase, or one of the two        *)
(* fetches of the page load; at tells which request of it is on its way    *)
(* to the server (":request") or which response on its way back            *)
(* (":response").                                                          *)
(***************************************************************************)
NoArgs == Args(Undef, Undef, Undef, Undef, Undef, Undef)
NoTotals == GetTotals(<<>>)

\* field is the column an edit of a row is about (cell.dataset.field, or
\* bought for the checkbox), "" for the other operations
Operation(n, kind, at, id, body, form) ==
  [n |-> n, kind |-> kind, at |-> at, id |-> id, body |-> body, form |-> form,
   status |-> 0, rows |-> {}, totals |-> NoTotals, field |-> ""]

\* DOMContentLoaded: fetchPurchases(); fetchTotals();
PageLoad ==
  { Operation(0, "fetchPurchases", "purchases:request", 0, NoArgs, FALSE),
    Operation(0, "fetchTotals", "totals:request", 0, NoArgs, FALSE) }

Replace(op, new) == ops' = (ops \ {op}) \cup {new}

\* an operation ends; form.reset() when the submit handler was awaiting it
Ends(op) ==
  /\ ops' = ops \ {op}
  /\ IF op.form
       THEN linkField' = <<>> /\ nameField' = <<>> /\ costField' = <<>>
       ELSE UNCHANGED <<linkField, nameField, costField>>

\* the submit listener of the form, up to the await of fetch in addPurchase
Submit ==
  /\ remaining > 0
  /\ LET name == Trim(nameField)
         link == Trim(linkField)
         cost == ParseFloatStr(costField)
     IN  IF name = <<>> \/ IsNaN(cost) \/ cost.m < 0
           THEN \* alert(...); return
                UNCHANGED <<ops, remaining>>
           ELSE /\ remaining' = remaining - 1
                /\ ops' = ops \cup
                     {Operation(remaining, "add", "mutation:request", 0,
                                Args(Str(name), Str(link), cost, Bool(FALSE),
                                     Str(<<>>), Undef),
                                TRUE)}
  /\ UNCHANGED <<purchases, totals>>
  /\ UNCHANGED <<formVars, serverVars, storeVars>>

\* the change listener of a row's checkbox: updatePurchaseStatus, up to the
\* await of fetch in updatePurchase
StatusToggled ==
  /\ remaining > 0
  /\ \E purchase \in purchases :
       /\ remaining' = remaining - 1
       /\ ops' = ops \cup
            {[Operation(remaining, "update", "mutation:request", purchase.id,
                        Args(purchase.name, purchase.link, purchase.cost,
                             Number(1 - purchase.bought, 0), purchase.comments,
                             Undef),
                        FALSE) EXCEPT !.field = "bought"]}
  /\ UNCHANGED <<purchases, totals>>
  /\ UNCHANGED <<formVars, serverVars, storeVars>>

\* what the user types into the input of an editable cell
EditInputs ==
  { <<"name", <<"m", " ">>>>, <<"name", <<" ">>>>, <<"cost", <<"7">>>>,
    <<"comments", <<"c">>>> }

\* saveEdit of makeEditable (Enter or blur), up to the await of fetch in
\* updatePurchase; JSON.stringify writes a NaN cost as null
CellEdited ==
  /\ remaining > 0
  /\ \E purchase \in purchases, edit \in EditInputs :
       LET field == edit[1]
           newValue == Trim(edit[2])
           cost == ParseFloatStr(newValue)
           updatedData ==
             Args(IF field = "name" THEN Str(newValue) ELSE purchase.name,
                  purchase.link,
                  IF field = "cost"
                    THEN (IF IsNaN(cost) THEN JsNull ELSE cost)
                    ELSE purchase.cost,
                  Number(purchase.bought, 0),
                  IF field = "comments" THEN Str(newValue) ELSE purchase.comments,
                  Undef)
       IN  /\ remaining' = remaining - 1
           /\ ops' = ops \cup
                {[Operation(remaining, "update", "mutation:request",
                            purchase.id, updatedData, FALSE)
                    EXCEPT !.field = field]}
  /\ UNCHANGED <<purchases, totals>>
  /\ UNCHANGED <<formVars, serverVars, storeVars>>

\* the click listener of a row's delete button, confirmed: deletePurchase up
\* to the await of fetch
DeleteClicked ==
  /\ remaining > 0
  /\ \E purchase \in purchases :
       /\ remaining' = remaining - 1
       /\ ops' = ops \cup
            {Operation(remaining, "delete", "mutation:request", purchase.id,
                       NoArgs, FALSE)}
  /\ UNCHANGED <<purchases, totals>>
  /\ UNCHANGED <<formVars, serverVars, storeVars>>

\* POST /api/purchases
PostPurchases ==
  /\ \E op \in ops :
       /\ op.kind = "add" /\ op.at = "mutation:request"
       /\ IF RouteRejects(op.body)
            THEN /\ Replace(op, [op EXCEPT !.at = "mutation:response",
                                           !.status = 400, !.body = NoArgs])
                 /\ UNCHANGED <<purchasesTable, sequence>>
            ELSE LET r == AddPurchase(purchasesTable, sequence, op.body)
                 IN  /\ Store(r)
                     /\ Replace(op, [op EXCEPT !.at = "mutation:response",
                                               !.status = RouteStatus(r, 201),
                                               !.body = NoArgs])
  /\ UNCHANGED <<purchases, totals, remaining, dbOutcome>>
  /\ UNCHANGED <<formVars, serverVars>>

\* PUT /api/purchases/:id
PutPurchase ==
  /\ \E op \in ops :
       /\ op.kind = "update" /\ op.at = "mutation:request"
       /\ IF RouteRejects(op.body)
            THEN /\ Replace(op, [op EXCEPT !.at = "mutation:response",
                                           !.status = 400, !.body = NoArgs])
                 /\ UNCHANGED <<purchasesTable, sequence>>
            ELSE LET r == UpdatePurchase(purchasesTable, sequence, op.id, op.body)
                 IN  /\ Store(r)
                     /\ Replace(op, [op EXCEPT !.at = "mutation:response",
                                               !.status = RouteStatus(r, 200),
                                               !.body = NoArgs])
  /\ UNCHANGED <<purchases, totals, remaining, dbOutcome>>
  /\ UNCHANGED <<formVars, serverVars>>

\* DELETE /api/purchases/:id
DeletePurchaseRoute ==
  /\ \E op \in ops :
       /\ op.kind = "delete" /\ op.at = "mutation:request"
       /\ LET r == DeletePurchase(purchasesTable, sequence, op.id)
          IN  /\ Store(r)
              /\ Replace(op, [op EXCEPT !.at = "mutation:response",
                                        !.status = RouteStatus(r, 200)])
  /\ UNCHANGED <<purchases, totals, remaining, dbOutcome>>
  /\ UNCHANGED <<formVars, serverVars>>

\* GET /api/purchases
GetPurchases ==
  /\ \E op \in ops :
       /\ op.at = "purchases:request"
       /\ Replace(op, [op EXCEPT !.at = "purchases:response", !.status = 200,
                                 !.rows = GetAllPurchases(purchasesTable)])
  /\ UNCHANGED <<purchases, totals, remaining>>
  /\ UNCHANGED <<formVars, serverVars, storeVars>>

\* GET /api/totals
GetTotalsRoute ==
  /\ \E op \in ops :
       /\ op.at = "totals:request"
       /\ Replace(op, [op EXCEPT !.at = "totals:response", !.status = 200,
                                 !.totals = GetTotals(purchasesTable)])
  /\ UNCHANGED <<purchases, totals, remaining>>
  /\ UNCHANGED <<formVars, serverVars, storeVars>>

\* the response to the writing request arrives: the rest of addPurchase,
\* updatePurchase or deletePurchase up to the await in fetchPurchases, or,
\* for a status that is not ok, its catch block
MutationAnswered ==
  /\ \E op \in ops :
       /\ op.at = "mutation:response"
       /\ IF ResponseOk(op.status)
            THEN /\ Replace(op, [op EXCEPT !.at = "purchases:request", !.status = 0])
                 /\ UNCHANGED <<linkField, nameField, costField>>
            ELSE \* alert('Failed to ...')
                 Ends(op)
  /\ UNCHANGED <<purchases, totals, remaining>>
  /\ UNCHANGED <<extractionInProgress, extractions, extractionStatus,
                 statusTimers>>
  /\ UNCHANGED <<serverVars, storeVars>>

\* the response to GET /api/purchases arrives: the rest of fetchPurchases,
\* and then of its caller up to the await in fetchTotals
PurchasesAnswered ==
  /\ \E op \in ops :
       /\ op.at = "purchases:response"
       /\ purchases' = op.rows
       /\ IF op.kind = "fetchPurchases"
            THEN Ends(op)
            ELSE /\ Replace(op, [op EXCEPT !.at = "totals:request",
                                           !.status = 0, !.rows = {}])
                 /\ UNCHANGED <<linkField, nameField, costField>>
  /\ UNCHANGED <<totals, remaining>>
  /\ UNCHANGED <<extractionInProgress, extractions, extractionStatus,
                 statusTimers>>
  /\ UNCHANGED <<serverVars, storeVars>>

\* the response to GET /api/totals arrives: the rest of fetchTotals, and of
\* its caller
TotalsAnswered ==
  /\ \E op \in ops :
       /\ op.at = "totals:response"
       /\ totals' = <<op.totals>>
       /\ Ends(op)
  /\ UNCHANGED <<purchases, remaining>>
  /\ UNCHANGED <<extractionInProgress, extractions, extractionStatus,
                 statusTimers>>
  /\ UNCHANGED <<serverVars, storeVars>>

FormNext ==
  \/ LinkChanged
  \/ FormFilled
  \/ ExtractionFetchResolves
  \/ ExtractionFetchRejects
  \/ ExtractionBodyResolves
  \/ ExtractionBodyRejects
  \/ StatusTimerFires
  \/ Submit
  \/ PostPurchases
  \/ GetPurchases
  \/ GetTotalsRoute
  \/ MutationAnswered
  \/ PurchasesAnswered
  \/ TotalsAnswered


ListNext ==
  \/ FormFilled
  \/ Submit
  \/ StatusToggled
  \/ DeleteClicked
  \/ PostPurchases
  \/ PutPurchase
  \/ DeletePurchaseRoute
  \/ GetPurchases
  \/ GetTotalsRoute
  \/ MutationAnswered
  \/ PurchasesAnswered
  \/ TotalsAnswered

\* the edits of the rows of the list
EditNext ==
  \/ CellEdited
  \/ StatusToggled
  \/ PutPurchase
  \/ GetPurchases
  \/ GetTotalsRoute
  \/ MutationAnswered
  \/ PurchasesAnswered
  \/ TotalsAnswered

(***************************************************************************)
(* The initial state and the specifications: of the link-extraction        *)
(* server, of the store, of the form and of the list.                      *)
(***************************************************************************)
\* the page has been loaded: DOMContentLoaded has run
PageStarts ==
  /\ linkField = <<>>
  /\ nameField = <<>>
  /\ costField = <<>>
  /\ extractionInProgress = FALSE
  /\ extractions = <<>>
  /\ extractionStatus = <<>>
  /\ statusTimers = 0
  /\ purchases = {}
  /\ totals = <<>>
  /\ ops = PageLoad
  /\ remaining = MaxOps

Init ==
  /\ ServerStarts
  /\ served = <<>>
  /\ StoreStarts
  /\ PageStarts

\* the two fetches of the page load have ended, on an empty table
LoadedInit ==
  /\ ServerStarts
  /\ served = <<>>
  /\ StoreStarts
  /\ linkField = <<>>
  /\ nameField = <<>>
  /\ costField = <<>>
  /\ extractionInProgress = FALSE
  /\ extractions = <<>>
  /\ extractionStatus = <<>>
  /\ statusTimers = 0
  /\ purchases = {}
  /\ totals = <<NoTotals>>
  /\ ops = {}
  /\ remaining = MaxSubmits

\* the page has been loaded on a table that holds one purchase, which was
\* posted to the API with a room
EditInit ==
  /\ ServerStarts
  /\ served = <<>>
  /\ LET r == AddPurchase(<<>>, 0,
                          Args(NameN, Undef, Number(5, 0), Bool(FALSE), Undef,
                               Str(<<"k">>)))
     IN  /\ purchasesTable = r.table
         /\ sequence = r.seq
         /\ dbOutcome = Outcome(r)
         /\ purchases = GetAllPurchases(r.table)
         /\ totals = <<GetTotals(r.table)>>
  /\ linkField = <<>>
  /\ nameField = <<>>
  /\ costField = <<>>
  /\ extractionInProgress = FALSE
  /\ extractions = <<>>
  /\ extractionStatus = <<>>
  /\ statusTimers = 0
  /\ ops = {}
  /\ remaining = MaxOps

\* the fetched site is static: one page, the same on every request
StaticInit ==
  /\ ServerStarts
  /\ served \in {<<doc>> : doc \in StaticPages}
  /\ StoreStarts
  /\ PageStarts

\* the link-extraction server
Spec == Init /\ [][Next]_vars

\* the server in front of a site with static markup
StaticSpec == StaticInit /\ [][Next]_vars

\* Timers fire.  Nothing makes the fetched site answer or finish its body.
FairSpec == Spec /\ WF_vars(TimeoutFires) /\ WF_vars(StaleTimeoutFires)

\* the store under any sequence of calls of its three writing functions
StoreSpec == Init /\ [][StoreNext]_vars

\* the add-purchase form, once the page has loaded: link extraction, typing
\* and submitting
FormSpec == LoadedInit /\ [][FormNext]_vars

\* the list: adding, marking as bought and deleting purchases
ListSpec == Init /\ [][ListNext]_vars

\* the edits of a stored purchase: the page, the routes and the store
EditSpec == EditInit /\ [][EditNext]_vars


(***************************************************************************)
(* Properties.                                                             *)
(***************************************************************************)
\* the page has been fetched and extractProductInfo has run on it
Extracted == pc = "responded" /\ html # <<>>

Succeeded == Extracted /\ extractedData # <<>>

FailedWith(message) ==
  /\ thrown # <<>> /\ thrown[1].message = message
  /\ extractedData = <<>>
  /\ response # <<>> /\ response[1].status = 400

\* C1: the record extractProductInfo validates is the Open Graph result
\* whenever that is not null, otherwise the JSON-LD result whenever that is
\* not null, otherwise the basic-meta result, otherwise the empty record.
C1_StrictPriority ==
  Extracted =>
    LET og == ExtractOpenGraph(html[1])
        ld == ExtractJsonLd(html[1])
        bm == ExtractBasicMeta(html[1])
    IN  /\ ~og.null => chosen[1] = og.data
        /\ og.null /\ ~ld.null => chosen[1] = ld.data
        /\ og.null /\ ld.null /\ ~bm.null => chosen[1] = bm.data
        /\ og.null /\ ld.null /\ bm.null => chosen[1] = EmptyObject

\* C1 witness: Open Graph, JSON-LD and basic meta all found something, each
\* something else, and the record returned is the Open Graph one
C1_Witness ==
  /\ Succeeded
  /\ LET og == ExtractOpenGraph(html[1])
         ld == ExtractJsonLd(html[1])
         bm == ExtractBasicMeta(html[1])
     IN  /\ ~og.null /\ ~ld.null /\ ~bm.null
         /\ og.data # ld.data /\ og.data # bm.data /\ ld.data # bm.data
         /\ extractedData[1] = og.data

\* the result of the first strategy, in priority order, that is not null
Winner(doc) ==
  LET og == ExtractOpenGraph(doc)
      ld == ExtractJsonLd(doc)
  IN  IF ~og.null THEN og ELSE IF ~ld.null THEN ld ELSE ExtractBasicMeta(doc)

\* C8: every field of the returned record is a field of the winning
\* strategy's result, with its value; and when the winning strategy
\* produced only description and/or image the extraction fails with
\* ExtractionFailed, whatever the later strategies would have supplied.
C8_NoMerge ==
  Extracted =>
    LET w == Winner(html[1])
    IN  /\ Succeeded =>
              /\ ~w.null
              /\ \A k \in DOMAIN extractedData[1] :
                   k \in DOMAIN w.data /\ extractedData[1][k] = w.data[k]
        /\ (~w.null /\ DOMAIN w.data \subseteq {"description", "image"})
              => FailedWith(NoProductInfo)

\* C8 witness: Open Graph produced only a description, JSON-LD would have
\* supplied a title and a price, and the extraction failed
C8_Witness ==
  /\ Extracted
  /\ LET og == ExtractOpenGraph(html[1])
         ld == ExtractJsonLd(html[1])
     IN  /\ ~og.null /\ DOMAIN og.data = {"description"}
         /\ ~ld.null /\ Truthy(Get(ld.data, "title"))
         /\ Truthy(Get(ld.data, "price"))
  /\ FailedWith(NoProductInfo)

\* a number that is finite and not negative
IsFiniteNonNegative(v) == v.t = "number" /\ v.m >= 0

\* C2: in every record extractProductInfo returns, price is absent or a
\* finite nonnegative number.
C2_PriceFiniteNonNegative ==
  Succeeded =>
    \/ ~Has(extractedData[1], "price")
    \/ IsFiniteNonNegative(extractedData[1]["price"])

\* a title is present: a string that is not empty
TitlePresent(data) == Get(data, "title").t = "string" /\ Get(data, "title").s # <<>>

\* a price is present: a number
PricePresent(data) == Get(data, "price").t = "number"

\* C3: extractProductInfo fails with ExtractionFailed exactly when the
\* chosen record has neither a title nor a price, and every record it
\* returns has a title or a price.
C3_FailsExactlyWithoutTitleAndPrice ==
  Extracted =>
    /\ FailedWith(NoProductInfo)
         <=> (~TitlePresent(chosen[1]) /\ ~PricePresent(chosen[1]))
    /\ Succeeded
         => (TitlePresent(extractedData[1]) \/ PricePresent(extractedData[1]))

\* C4: every extraction that is started terminates, whichever phase of the
\* outbound request stalls.
C4_Terminates == (pc \in {"headers", "body"}) ~> (pc = "responded")

\* the block is well formed and the JSON-LD strategy returns data for it
\* when it is the only block
RelevantBlock(b) ==
  /\ b.wellFormed
  /\ ~ScanJsonLd(<<b>>, 1).null

\* C5: a block that fails to parse is skipped: when the first relevant block
\* comes after malformed blocks only, the strategy returns that block's data.
C5_MalformedBlockSkipped ==
  (Extracted /\ ExtractOpenGraph(html[1]).null) =>
    LET blocks == html[1].ldBlocks
    IN  \A j \in 2..Len(blocks) :
          (RelevantBlock(blocks[j]) /\ \A i \in 1..(j - 1) : ~blocks[i].wellFormed)
            => chosen[1] = ScanJsonLd(<<blocks[j]>>, 1).data

RECURSIVE AllDigits(_)
AllDigits(s) == s = <<>> \/ (IsDigit(Head(s)) /\ AllDigits(Tail(s)))

RECURSIVE GroupsOfThree(_)
\* s is empty or a sequence of groups: a space and three digits
GroupsOfThree(s) ==
  \/ s = <<>>
  \/ /\ Len(s) >= 4
     /\ IsSpace(s[1]) /\ IsDigit(s[2]) /\ IsDigit(s[3]) /\ IsDigit(s[4])
     /\ GroupsOfThree(SubSeq(s, 5, Len(s)))

\* the index of the first "," or "." of s, Len(s) + 1 when there is none
DecimalPoint(s) ==
  IF \E i \in 1..Len(s) : s[i] \in {",", "."}
    THEN CHOOSE i \in 1..Len(s) :
           s[i] \in {",", "."} /\ \A j \in 1..(i - 1) : s[j] \notin {",", "."}
    ELSE Len(s) + 1

WholePart(s) == SubSeq(s, 1, DecimalPoint(s) - 1)
FractionPart(s) == SubSeq(s, DecimalPoint(s) + 1, Len(s))

\* a well-formed price: one to three digits, then groups of three digits set
\* off by a space, or any run of digits; then, optionally, a comma or a dot
\* and the decimals
WellFormedPrice(s) ==
  LET w == WholePart(s)
      lead == TakeDigits(w)
  IN  /\ lead # <<>>
      /\ \/ lead = w
         \/ Len(lead) <= 3 /\ GroupsOfThree(SubSeq(w, Len(lead) + 1, Len(w)))
      /\ DecimalPoint(s) <= Len(s) => (FractionPart(s) # <<>> /\ AllDigits(FractionPart(s)))

\* the number a well-formed price writes: the grouping spaces dropped
WrittenValue(s) ==
  LET digits == SelectSeq(WholePart(s), IsDigit)
      f == FractionPart(s)
  IN  Number(DigitsValue(digits) * Pow10(Len(f)) + DigitsValue(f), Len(f))

\* C6: for a well-formed og:price the returned price is the number written,
\* and the returned title is the og:title.
C6_OgPriceIsNumberWritten ==
  (/\ Extracted
   /\ Truthy(html[1].ogTitle) /\ Trim(html[1].ogTitle.s) # <<>>
   /\ html[1].ogPrice.t = "string" /\ WellFormedPrice(html[1].ogPrice.s))
    => /\ Succeeded
       /\ Get(extractedData[1], "title") = Str(Trim(html[1].ogTitle.s))
       /\ Get(extractedData[1], "price") = WrittenValue(html[1].ogPrice.s)

\* C7: an og:price content without any digit gives a record without a price
\* field (the pages concerned carry no JSON-LD, so that a price field can
\* only come from og:price).
C7_NoDigitNoPrice ==
  (/\ Extracted
   /\ html[1].ldBlocks = <<>>
   /\ html[1].ogPrice.t = "string"
   /\ \A i \in 1..Len(html[1].ogPrice.s) : ~IsDigit(html[1].ogPrice.s[i]))
    => ~Has(chosen[1], "price")

\* C9: every failure response has status 400 and the body
\* { success: false, error }, every success response has status 200 and
\* the body { success: true, data }.
C9_ResponseShape ==
  response # <<>> =>
    LET r == response[1]
    IN  \/ /\ r.status = 400
           /\ DOMAIN r.body = {"success", "error"}
           /\ r.body["success"] = FALSE
        \/ /\ r.status = 200
           /\ DOMAIN r.body = {"success", "data"}
           /\ r.body["success"] = TRUE

\* the message the application shows for a site it cannot reach
CouldNotReach == "Could not reach website. Please fill in manually."

\* the messages of the five kinds of failure
UserSafeMessages ==
  {InvalidUrlFormat, RequestTimedOut, CouldNotReach, NoProductInfo}
    \cup {UpstreamMessage(st) : st \in Statuses}

\* C10: an error that crosses the boundary of extractProductInfo while the
\* page is fetched and read carries the message of one of the five kinds of
\* failure, and a fetch that fails at the network level carries the "could
\* not reach website" one.
C10_UserSafeFailure ==
  [][(pc \in {"headers", "body"} /\ thrown' # <<>>) =>
       /\ thrown'[1].message \in UserSafeMessages
       /\ response'[1].body["error"] \in UserSafeMessages
       /\ FetchRejects => thrown'[1].message = CouldNotReach]_vars

(***************************************************************************)
(* The fetcher and the route: outbound requests, upstream errors, URLs.    *)
(***************************************************************************)
\* the route has answered the current request without calling fetchUrl's
\* fetch: the url was missing, blank, no string or not well formed
RejectedBeforeFetch ==
  /\ pc = "responded"
  /\ \/ response = <<UrlRequiredResponse>>
     \/ thrown # <<>> /\ thrown[1].message \in {TrimNotAFunction, InvalidUrlFormat}

\* C12: handling one request, the fetcher calls fetch at most once: exactly
\* once when the url passes validation, never when it does not, and never a
\* second time after the first has failed.
C12_OneOutboundRequest ==
  /\ outbound <= 1
  /\ fetching # <<>> => outbound = 1
  /\ pc # "idle" => (outbound = 0 <=> RejectedBeforeFetch)

\* a request whose fetch was rejected by the network has been answered
C12_Witness ==
  /\ pc = "responded"
  /\ thrown = <<Error("TypeError", FetchFailed)>>
  /\ outbound = 1

\* the fetch of the current request failed: it timed out, was rejected,
\* lost its body, or got a status that is not a success
FetchHasFailed ==
  /\ pc = "responded"
  /\ outbound = 1
  /\ html = <<>>

\* C13: a response whose status is not a success makes the fetch fail with an
\* error whose message carries the status code; a fetch failure reaches the
\* caller of extractProductInfo as it was thrown, and no strategy runs after
\* it.
C13_UpstreamErrorPropagated ==
  /\ (pc = "responded" /\ upstreamStatus # 0
        /\ ~(upstreamStatus >= 200 /\ upstreamStatus <= 299)) =>
       /\ FetchHasFailed
       /\ thrown = <<Error("Error", "Website returned error: "
                                      \o ToString(upstreamStatus))>>
  /\ FetchHasFailed =>
       /\ thrown # <<>>
       /\ response = <<[status |-> 400,
                        body |-> ("success" :> FALSE)
                                 @@ ("error" :> thrown[1].message)]>>
       /\ chosen = <<>>
       /\ extractedData = <<>>

\* the fetched site has answered 404 and the route has answered
C13_Witness ==
  /\ pc = "responded"
  /\ upstreamStatus = 404
  /\ thrown # <<>>

\* a string with something else in it than white space
NonBlankString(v) == v.t = "string" /\ Trim(v.s) # <<>>

\* the trimmed url, with "https://" in front when it starts with neither
\* scheme
PrefixedUrl(v) ==
  LET t == Trim(v.s)
  IN  IF StartsWith(t, HttpPrefix) \/ StartsWith(t, HttpsPrefix)
        THEN t
        ELSE HttpsPrefix \o t

\* C14: the route fetches the trimmed url, prefixed with "https://" when it
\* starts with neither "http://" nor "https://"; a url that is still not
\* well formed is answered with the invalid-URL error and no fetch is made
\* for it.
C14_ProtocolAddedInvalidRejected ==
  (requested # <<>> /\ NonBlankString(requested[1])) =>
    LET url == PrefixedUrl(requested[1])
    IN  IF WellFormedUrl(url)
          THEN pc = "headers" /\ fetching = url /\ outbound = 1
          ELSE /\ pc = "responded"
               /\ thrown = <<Error("Error", InvalidUrlFormat)>>
               /\ response[1].status = 400
               /\ response[1].body["error"] = InvalidUrlFormat
               /\ fetching = <<>>
               /\ outbound = 0

\* a padded host without a scheme is being fetched over https
C14_Witness ==
  /\ requested = <<Str(<<" ">> \o Host \o <<" ">>)>>
  /\ fetching = HttpsPrefix \o Host

FirstOfferPrice(b) ==
  IF b.offers.items = <<>> THEN Undef ELSE b.offers.items[1].price

\* the page's only signal is one ld+json block
OnlyBlock(doc) ==
  /\ ExtractOpenGraph(doc).null
  /\ Len(doc.ldBlocks) = 1
  /\ doc.ldBlocks[1].wellFormed

\* C19: a block that is neither Product nor Offer is relevant when the first
\* entry of its offers, a single object or an array, carries a price, and
\* that price becomes the record's price.
C19_NestedOffersRelevant ==
  (/\ Extracted
   /\ OnlyBlock(html[1])
   /\ html[1].ldBlocks[1].type \notin {"Product", "Offer"}
   /\ Truthy(FirstOfferPrice(html[1].ldBlocks[1])))
    => /\ Has(chosen[1], "price")
       /\ chosen[1]["price"] = ParseFloat(FirstOfferPrice(html[1].ldBlocks[1]))

\* a block extractJsonLd takes: Product or Offer, or one with a single
\* nested offers object that carries a price
TakenBlock(b) ==
  \/ b.type \in {"Product", "Offer"}
  \/ b.offers.shape = "object" /\ Truthy(FirstOfferPrice(b))

\* the first entry of a block's image, undefined without one
FirstImage(b) == IF b.image.items = <<>> THEN Undef ELSE b.image.items[1]

BillyRecord ==
  ("title" :> Str(<<"B", "I", "L", "L", "Y">>)) @@ ("price" :> Number(399, 0))

\* C20: the record of a relevant block maps name to title, description to
\* description, the first image to image and the first offer's price to the
\* numeric price; the BILLY block yields title "BILLY" and price 399.
C20_JsonLdFieldMapping ==
  (Extracted /\ OnlyBlock(html[1]) /\ TakenBlock(html[1].ldBlocks[1])) =>
    LET b == html[1].ldBlocks[1]
        data == chosen[1]
    IN  /\ Truthy(b.name) => Get(data, "title") = b.name
        /\ Truthy(b.description) => Get(data, "description") = b.description
        /\ Truthy(FirstImage(b)) => Get(data, "image") = FirstImage(b)
        /\ Truthy(FirstOfferPrice(b)) =>
             Get(data, "price") = ParseFloat(FirstOfferPrice(b))
        /\ b = Billy => data = BillyRecord

(***************************************************************************)
(* The purchase store: totals.                                             *)
(***************************************************************************)
RECURSIVE CostsOf(_, _)
\* the costs of the rows ids of a table, added up
CostsOf(table, ids) ==
  IF ids = {} THEN Zero
  ELSE LET i == CHOOSE j \in ids : TRUE
       IN  Plus(CostsOf(table, ids \ {i}), table[i].cost)

\* the rows marked as bought
MarkedBought(table) == {i \in DOMAIN table : table[i].bought # 0}

C11_SingleFlight ==
  [][/\ extractionInProgress => Len(extractions') <= Len(extractions)
     /\ Len(extractions') <= 1]_vars

\* the link field has been changed while the request for the link it held
\* before is in flight
C11_Witness ==
  /\ extractionInProgress
  /\ Len(extractions) = 1
  /\ Trim(linkField) # <<>>
  /\ Trim(linkField) # extractions[1].url

\* the name and the cost the submit listener accepts
FieldsValid ==
  /\ Trim(nameField) # <<>>
  /\ ParseFloatStr(costField).t = "number"
  /\ ParseFloatStr(costField).m >= 0

\* the submit listener sends the purchase
SubmitAccepted == Submit /\ ops' # ops

\* C15: extractionInProgress is false whenever no extraction attempt is
\* running, however the last one ended, and whatever the state of the
\* extraction the form can be submitted.
C15_FlagClearedSubmitPossible ==
  /\ extractions = <<>> => ~extractionInProgress
  /\ (remaining > 0 /\ FieldsValid) => ENABLED SubmitAccepted

\* an attempt has ended with a network exception, and the form has been
\* submitted since
C15_Witness ==
  /\ extractionStatus = Status("error", CouldNotReachWebsite, <<>>)
  /\ extractions = <<>>
  /\ ~extractionInProgress
  /\ \E op \in ops : op.kind = "add"

\* C18: once every request of every operation has been answered, the list
\* and the totals the page shows are those of the table.
C18_DisplayFollowsStore ==
  ops = {} =>
    /\ purchases = GetAllPurchases(purchasesTable)
    /\ totals = <<GetTotals(purchasesTable)>>

(***************************************************************************)
(* JSON-LD: the order of the scan; the basic meta tags.                    *)
(***************************************************************************)
\* the places of the blocks of a page that extractJsonLd takes
TakenPlaces(doc) ==
  {i \in 1..Len(doc.ldBlocks) :
     doc.ldBlocks[i].wellFormed /\ TakenBlock(doc.ldBlocks[i])}

\* the page carries no Open Graph tag
NoOpenGraphTags(doc) ==
  /\ doc.ogTitle = Undef /\ doc.ogPrice = Undef
  /\ doc.ogDescription = Undef /\ doc.ogImage = Undef

\* C21: the JSON-LD strategy returns the data of the first relevant block in
\* document order, whatever comes after it and whatever blocks that are not
\* relevant or do not parse come before it; without a relevant block it
\* returns null and the basic meta tags decide.
C21_FirstRelevantBlockReturned ==
  (Extracted /\ ExtractOpenGraph(html[1]).null) =>
    LET doc == html[1]
        rel == TakenPlaces(doc)
    IN  IF rel = {}
          THEN chosen[1] = SelectRecord(Null, Null, ExtractBasicMeta(doc))
          ELSE LET first == CHOOSE i \in rel : \A j \in rel : i <= j
                   d == ScanJsonLd(<<doc.ldBlocks[first]>>, 1)
               IN  ~d.null => chosen[1] = d.data

\* the page has ld+json blocks and none of them parses
AllMalformed(doc) ==
  /\ doc.ldBlocks # <<>>
  /\ \A i \in 1..Len(doc.ldBlocks) : ~doc.ldBlocks[i].wellFormed

\* the title the basic meta tags give: the meta title, else the title element
BasicTitle(doc) ==
  IF Truthy(doc.metaTitle) THEN Trim(doc.metaTitle.s) ELSE Trim(doc.titleText)

\* C22: a page without Open Graph tags whose ld+json blocks are all
\* malformed, and with a meta title or a title element, is extracted
\* successfully with that title.
C22_MalformedLdFallsThrough ==
  (/\ Extracted
   /\ NoOpenGraphTags(html[1])
   /\ AllMalformed(html[1])
   /\ BasicTitle(html[1]) # <<>>)
    => /\ Succeeded
       /\ Get(extractedData[1], "title") = Str(BasicTitle(html[1]))

\* C22 witness: two malformed blocks and a title element only
C22_Witness ==
  /\ Succeeded
  /\ NoOpenGraphTags(html[1])
  /\ html[1].ldBlocks = <<Malformed, Malformed>>
  /\ html[1].metaTitle = Undef
  /\ extractedData[1] = ("title" :> Str(html[1].titleText))

\* C23: when the basic meta tags decide, the record's title is the meta
\* title, or the text of the title element when there is no meta title, its
\* description is the meta description, it has no price, and it is empty
\* exactly when neither a title nor a description was found.
C23_BasicMetaFields ==
  (/\ Extracted
   /\ ExtractOpenGraph(html[1]).null
   /\ ExtractJsonLd(html[1]).null)
    => LET doc == html[1]
           data == chosen[1]
           hasTitle == Truthy(doc.metaTitle) \/ doc.titleText # <<>>
           hasDescription == Truthy(doc.metaDescription)
       IN  /\ DOMAIN data = (IF hasTitle THEN {"title"} ELSE {})
                              \cup (IF hasDescription THEN {"description"} ELSE {})
           /\ hasTitle => data["title"] = Str(BasicTitle(doc))
           /\ hasDescription =>
                data["description"] = Str(Trim(doc.metaDescription.s))

\* C23 witness: a title element and a meta description only give a record
\* of title and description
C23_Witness ==
  /\ Succeeded
  /\ NoOpenGraphTags(html[1])
  /\ html[1].ldBlocks = <<>>
  /\ html[1].metaTitle = Undef
  /\ html[1].titleText = <<"E">>
  /\ html[1].metaDescription = Str(<<"m", " ">>)
  /\ extractedData[1] = ("title" :> Str(<<"E">>)) @@ ("description" :> Str(<<"m">>))

(***************************************************************************)
(* Price attributes.                                                       *)
(***************************************************************************)
\* the strategies left the record without a price that is a number
NoPriceRecovered ==
  ~Has(chosen[1], "price") \/ IsNaN(chosen[1]["price"])

\* C24: when Open Graph, JSON-LD and the basic meta tags recovered no price
\* and the og:price meta or the first data-price attribute parses to a number
\* above 0, the extraction succeeds and the returned record carries that
\* price.
C24_PriceAttributeScraped ==
  (Extracted /\ NoPriceRecovered /\ ExtractPrice(html[1]) # JsNull)
    => /\ Succeeded
       /\ Get(extractedData[1], "price") = ExtractPrice(html[1])

(***************************************************************************)
(* The purchase store: its rows and its failing calls.                     *)
(***************************************************************************)
\* a string, as the columns declared TEXT hold it
IsText(v) == v.t = "string"

\* C25: every stored purchase has a name that is trimmed and not empty, a
\* cost that is a number, not NaN and not below 0, bought 0 or 1, and link,
\* comments and room that are strings.
C25_StoredRowsValid ==
  \A id \in DOMAIN purchasesTable :
    LET row == purchasesTable[id]
    IN  /\ IsText(row.name) /\ row.name.s # <<>> /\ Trim(row.name.s) = row.name.s
        /\ row.cost.t = "number" /\ row.cost.m >= 0
        /\ row.bought \in {0, 1}
        /\ IsText(row.link) /\ IsText(row.comments) /\ IsText(row.room)

\* C25 witness: a row written from a padded name, a numeric link, null
\* comments and a room of 0, next to a row with a cost of 0
C25_Witness ==
  \E i, j \in DOMAIN purchasesTable :
    /\ purchasesTable[i].link = Str(<<"5", ".", "0">>)
    /\ purchasesTable[i].comments = Str(<<>>)
    /\ purchasesTable[j].cost = Zero
    /\ dbOutcome = CostInvalid

\* the arguments the store functions refuse: an empty name, a missing cost,
\* a cost that is not a number or is below 0
EmptyName(p) == ~Truthy(p.name) \/ (IsText(p.name) /\ Trim(p.name.s) = <<>>)
MissingCost(p) == p.cost \in {Undef, JsNull}
BadCost(p) ==
  \/ ParseFloat(p.cost).t # "number"
  \/ ParseFloat(p.cost).m < 0

\* the call that ended as r left the table and the totals as they are
LeavesStore(r) ==
  /\ r.table = purchasesTable
  /\ GetTotals(r.table) = GetTotals(purchasesTable)

\* in the current state, every call that must fail throws its message and
\* leaves the store
FailingCallsRefused ==
  \A p \in StoreInputs, id \in StoreIds :
    LET added == AddPurchase(purchasesTable, sequence, p)
        updated == UpdatePurchase(purchasesTable, sequence, id, p)
        deleted == DeletePurchase(purchasesTable, sequence, id)
        refused == EmptyName(p) \/ MissingCost(p) \/ BadCost(p)
        missing == id \notin DOMAIN purchasesTable
    IN  /\ refused => added.error # <<>> /\ updated.error # <<>>
        /\ EmptyName(p) =>
             /\ added.error[1].message = NameRequired
             /\ updated.error[1].message = NameRequired
        /\ (~EmptyName(p) /\ IsText(p.name) /\ MissingCost(p)) =>
             /\ added.error[1].message = CostRequired
             /\ updated.error[1].message = CostRequired
        /\ (~EmptyName(p) /\ IsText(p.name) /\ ~MissingCost(p) /\ BadCost(p)) =>
             /\ added.error[1].message = CostInvalid
             /\ updated.error[1].message = CostInvalid
        /\ (missing /\ ~refused /\ IsText(p.name)) =>
             updated.error = <<Error("Error", NotFound(id))>>
        /\ missing => deleted.error = <<Error("Error", NotFound(id))>>
        /\ added.error # <<>> => LeavesStore(added)
        /\ updated.error # <<>> => LeavesStore(updated)
        /\ deleted.error # <<>> => LeavesStore(deleted)

\* C26: a store call that fails leaves the store unchanged: addPurchase and
\* updatePurchase with an empty name, a missing cost or a cost that is not a
\* number or is below 0 throw before writing, updatePurchase and
\* deletePurchase on an id that is not stored throw "Purchase with ID <id>
\* not found", and the rows and the totals are the same after the call.
C26_FailedCallLeavesStore ==
  /\ []FailingCallsRefused
  /\ [][dbOutcome' # "returned" =>
          /\ purchasesTable' = purchasesTable
          /\ GetTotals(purchasesTable') = GetTotals(purchasesTable)]_vars

\* C26 witness: a call on an id that was deleted has thrown, with rows in
\* the table
C26_Witness ==
  /\ purchasesTable # << >>
  /\ \E id \in 1..sequence :
       id \notin DOMAIN purchasesTable /\ dbOutcome = NotFound(id)

(***************************************************************************)
(* Edits of a row.                                                         *)
(***************************************************************************)
Columns == {"name", "link", "cost", "bought", "comments", "room"}

\* this step is the PUT route serving the edit op with success
PutServes(op) ==
  /\ op \in ops
  /\ op.kind = "update" /\ op.at = "mutation:request"
  /\ [op EXCEPT !.at = "mutation:response", !.status = 200, !.body = NoArgs]
       \in ops'

\* the edit op was made on a page that showed the record as it is stored
MadeFromStored(op) ==
  \A g \in Columns \ {op.field, "room"} :
    BoundRow(op.body)[g] = purchasesTable[op.id][g]

\* C27: an edit of one field, made on a page that showed the record as it
\* is stored, changes only that field of the stored record; every other
\* column, room included, keeps its value.
C27_EditKeepsOtherFields ==
  [][\A op \in ops :
       (PutServes(op) /\ MadeFromStored(op))
         => \A g \in Columns \ {op.field} :
              purchasesTable'[op.id][g] = purchasesTable[op.id][g]]_vars

\* C28: of two edits of different fields of one purchase that are under way
\* together, the one whose PUT is served second keeps the change the first
\* has stored.
C28_NoLostUpdate ==
  [][\A op, prior \in ops :
       (/\ PutServes(op)
        /\ prior.kind = "update" /\ prior.id = op.id
        /\ prior.field # op.field
        /\ prior.at \in {"purchases:request", "purchases:response"})
         => purchasesTable'[op.id][prior.field]
              = purchasesTable[op.id][prior.field]]_vars

(***************************************************************************)
(* The form while an extraction is under way.                              *)
(***************************************************************************)
\* this step is the end of an extraction that succeeded: the fields are
\* filled and the success message is shown
ExtractionSucceeds ==
  /\ Len(extractions') < Len(extractions)
  /\ extractionStatus' # Hidden
  /\ extractionStatus'[1].type = "success"

\* C29: when an extraction fills the name and cost fields, the link field
\* holds the URL the extraction was started for.
C29_FilledFromCurrentLink ==
  [][ExtractionSucceeds => Trim(linkField') = extractions[1].url]_vars

\* this step is a timer set after a success firing
TimerFired == statusTimers' < statusTimers

\* C30: the timer set after a success hides nothing but a success message:
\* the loading status of an extraction in progress and an error status stay
\* visible when it fires.
C30_TimerHidesOnlySuccess ==
  [][(TimerFired /\ extractionStatus # Hidden)
       => extractionStatus[1].type \notin {"loading", "error"}]_vars

=============================================================================
